---------------------------- MODULE Spec2Model ----------------------------
(***************************************************************************)
(* Model of main.py: the product resolver (resolver), the order segmenter  *)
(* and aggregator (extraer_ordenes_con_fitz), the label anchor locator     *)
(* (the y_pos computation of anotar_pdf_con_productos), the label text     *)
(* (formatear_productos_orden) and two requests served at the same time.   *)
(*                                                                         *)
(* Text is a sequence of one-character strings, so that lower(), strip(),  *)
(* startswith(), isdigit() and int() are computed character by character.  *)
(* Indices i, j, k, m keep Python's 0-based values; element n of a Python  *)
(* list is element n + 1 of the sequence.  Coordinates are in hundredths   *)
(* of a point, so that 28.35 is the integer 2835.                          *)
(***************************************************************************)
EXTENDS Integers, Sequences, FiniteSets, TLC

\* ------------------------------------------------------------------ bounds
MaxLineas == 4
MaxEntradas == 3
MaxTexto == 3
MaxItems == 3
MaxCantidad == 2
MaxPalabras == 3

\* ------------------------------------------------------------------ state
VARIABLES
    mapa,                \* the catalog table read by resolver: <<prefix, info>> in dict order
    lineas,              \* the document's lines
    pc,                  \* position in the code
    i, j, k, m,          \* loop indices of extraer_ordenes_con_fitz
    num_orden,           \* id of the order being processed
    lineas_orden,        \* lines of the order being processed
    productos_en_orden,  \* products counted in the order being processed
    nombre_producto,     \* text of the product being captured
    cantidad,            \* the local 'cantidad'
    cantidad_en_locals,  \* 'cantidad' in locals()
    info,                \* last result of resolver
    ordenes,             \* order id -> list of <<info, cantidad>>
    ordenes_agrupadas,   \* order id -> list of <<info, cantidad>>, one per info
    capturados,          \* printed trace: <<i, num_orden, nombre_producto, cantidad>> per product
    palabras,            \* words of the label page: <<x0, y0, x1, y1, text>>
    altura,              \* pagina.rect.height
    seguimientos,        \* the words containing "seguimiento", sorted
    y_pos,               \* the anchor: None or <<y>>
    productos_de_orden,  \* an order's list of <<info, cantidad>> given to the formatter
    lineas_etiqueta,     \* the text lines the formatter returns
    otra,                \* the locals of the request that is not running now
    pendientes,          \* documents of the requests not started yet
    respuestas           \* <<document, ordenes_agrupadas>> of each finished request

vars == <<mapa, lineas, pc, i, j, k, m, num_orden, lineas_orden, productos_en_orden,
          nombre_producto, cantidad, cantidad_en_locals, info, ordenes,
          ordenes_agrupadas, capturados, palabras, altura, seguimientos, y_pos,
          productos_de_orden, lineas_etiqueta, otra, pendientes, respuestas>>

etiqueta == <<palabras, altura, seguimientos, y_pos>>

formato == <<productos_de_orden, lineas_etiqueta>>

hilos == <<otra, pendientes, respuestas>>

\* ------------------------------------------------------------------ text
None == <<>>

Espacios == {" "}

Digitos == <<"0", "1", "2", "3", "4", "5", "6", "7", "8", "9">>

Mayusculas == <<"A", "B", "C", "D", "E", "F", "G", "H", "I", "J", "K", "L", "M", "N", "O", "P", "Q", "R", "S", "T", "U", "V", "W", "X", "Y", "Z">>

Minusculas == <<"a", "b", "c", "d", "e", "f", "g", "h", "i", "j", "k", "l", "m", "n", "o", "p", "q", "r", "s", "t", "u", "v", "w", "x", "y", "z">>

Posicion(c, alfabeto) == CHOOSE n \in 1..Len(alfabeto) : alfabeto[n] = c

EnAlfabeto(c, alfabeto) == \E n \in 1..Len(alfabeto) : alfabeto[n] = c

lower(s) ==
    [n \in 1..Len(s) |->
        IF EnAlfabeto(s[n], Mayusculas) THEN Minusculas[Posicion(s[n], Mayusculas)] ELSE s[n]]

strip(s) ==
    LET visibles == {n \in 1..Len(s) : s[n] \notin Espacios}
    IN  IF visibles = {} THEN <<>>
        ELSE SubSeq(s, CHOOSE a \in visibles : \A b \in visibles : a <= b,
                       CHOOSE a \in visibles : \A b \in visibles : a >= b)

startswith(s, p) == Len(p) <= Len(s) /\ SubSeq(s, 1, Len(p)) = p

contiene(s, sub) ==
    \E n \in 0..(Len(s) - Len(sub)) : SubSeq(s, n + 1, n + Len(sub)) = sub

isdigit(s) == Len(s) > 0 /\ \A n \in 1..Len(s) : EnAlfabeto(s[n], Digitos)

RECURSIVE int(_)
int(s) ==
    IF Len(s) = 0 THEN 0
    ELSE 10 * int(SubSeq(s, 1, Len(s) - 1)) + (Posicion(s[Len(s)], Digitos) - 1)

\* ------------------------------------------------------------------ catalog
\* Entries of the table, in the order of the source.
MAPA_PRODUCTOS == <<
    <<<<"g", "a", "t", "i", "t", "o", " ", "v", "e", "r", "a", "n", "o", " ", "(", "t", "a", "l", "l", "a", " ", "s">>, <<<<"V", "E", "R", "A", "N", "O">>, <<"G", "a", "t", "i", "t", "o">>, <<"B", "e", "i", "g", "e">>, <<"S">>>> >>,
    <<<<"g", "a", "t", "i", "t", "o", " ", "v", "e", "r", "a", "n", "o", " ", "(", "t", "a", "l", "l", "a", " ", "m">>, <<<<"V", "E", "R", "A", "N", "O">>, <<"G", "a", "t", "i", "t", "o">>, <<"B", "e", "i", "g", "e">>, <<"M">>>> >>,
    <<<<"g", "a", "t", "i", "t", "o", " ", "v", "e", "r", "a", "n", "o">>, <<<<"V", "E", "R", "A", "N", "O">>, <<"G", "a", "t", "i", "t", "o">>, <<"B", "e", "i", "g", "e">>, <<"S">>>> >>,
    <<<<"c", "a", "m", "a", " ", "p", "a", "n", "c", "h", "o", " ", "a", "n", "t", "i", "e", "s", "t", "r", "e", "s", " ", "-", " ", "e", "r", "g", "o", "n", "o", "m", "i", "c", "a", " ", "(", "t", "a", "l", "l", "a", " ", "l">>, <<<<"A", "N", "T", "I", "E", "S", "T", "R", "E", "S">>, <<"P", "a", "n", "c", "h", "o">>, <<>>, <<"L">>>> >>,
    <<<<"c", "a", "m", "a", " ", "p", "a", "n", "c", "h", "o", " ", "a", "n", "t", "i", "e", "s", "t", "r", "e", "s", " ", "-", " ", "e", "r", "g", "o", "n", "o", "m", "i", "c", "a">>, <<<<"A", "N", "T", "I", "E", "S", "T", "R", "E", "S">>, <<"P", "a", "n", "c", "h", "o">>, <<>>, <<"M">>>> >>,
    <<<<"g", "a", "t", "i", "t", "o", " ", "i", "n", "v", "i", "e", "r", "n", "o", " ", "(", "t", "a", "l", "l", "a", " ", "m">>, <<<<"I", "N", "V", "I", "E", "R", "N", "O">>, <<"G", "a", "t", "i", "t", "o">>, <<"B", "e", "i", "g", "e", "/", "M", "a", "r", "r", "ó", "n">>, <<"M">>>> >>,
    <<<<"m", "a", "n", "t", "i", "t", "a", "s", " ", "d", "o", "b", "l", "e", " ", "f", "a", "z", " ", "(", "g", "r", "i", "s", "/", "b", "l", "a", "n", "c", "o">>, <<<<"M", "A", "N", "T", "A">>, <<"M", "a", "n", "t", "a", " ", "D", "o", "b", "l", "e", " ", "F", "a", "z">>, <<"G", "r", "i", "s", "/", "B", "l", "a", "n", "c", "o">>, <<"U">>>> >>,
    <<<<"m", "a", "n", "t", "i", "t", "a", "s", " ", "d", "o", "b", "l", "e", " ", "f", "a", "z", " ", "(", "g", "r", "i", "s">>, <<<<"M", "A", "N", "T", "A">>, <<"M", "a", "n", "t", "a", " ", "D", "o", "b", "l", "e", " ", "F", "a", "z">>, <<"G", "r", "i", "s", "/", "B", "l", "a", "n", "c", "o">>, <<"U">>>> >>,
    <<<<"r", "e", "m", "e", "r", "a", "s", " ", "d", "e", "p", "o", "r", "t", "i", "v", "a", "s", " ", "(", "a", "r", "g", "e", "n", "t", "i", "n", "a">>, <<<<"R", "O", "P", "I", "T", "A">>, <<"R", "o", "p", "i", "t", "a">>, <<"A", "r", "g", "e", "n", "t", "i", "n", "a">>, <<"U">>>> >>,
    <<<<"b", "u", "z", "o", " ", "p", "a", "n", "d", "a">>, <<<<"R", "O", "P", "I", "T", "A">>, <<"R", "o", "p", "i", "t", "a">>, <<"P", "a", "n", "d", "a">>, <<"U">>>> >>
>>

tiene_color(inf) == inf[3] # <<>> /\ strip(inf[3]) # <<>>

\* First loop of resolver: entries with a color, longest prefix so far.
RECURSIVE bucle_con_color_ultimo(_, _, _, _)
bucle_con_color_ultimo(key, n, mejor_con_color, mejor_len_color) ==
    IF n > Len(mapa) THEN mejor_con_color
    ELSE IF tiene_color(mapa[n][2]) /\ startswith(key, mapa[n][1])
         THEN bucle_con_color_ultimo(key, n + 1, mapa[n][2], Len(mapa[n][1]))
         ELSE bucle_con_color_ultimo(key, n + 1, mejor_con_color, mejor_len_color)

RECURSIVE bucle_con_color(_, _, _, _)
bucle_con_color(key, n, mejor_con_color, mejor_len_color) ==
    IF n > Len(mapa) THEN mejor_con_color
    ELSE IF tiene_color(mapa[n][2]) /\ startswith(key, mapa[n][1])
                                    /\ Len(mapa[n][1]) > mejor_len_color
         THEN bucle_con_color(key, n + 1, mapa[n][2], Len(mapa[n][1]))
         ELSE bucle_con_color(key, n + 1, mejor_con_color, mejor_len_color)

\* Second loop of resolver: every entry, longest prefix so far.
RECURSIVE bucle_generico(_, _, _, _)
bucle_generico(key, n, mejor, largo) ==
    IF n > Len(mapa) THEN mejor
    ELSE IF startswith(key, mapa[n][1]) /\ Len(mapa[n][1]) > largo
         THEN bucle_generico(key, n + 1, mapa[n][2], Len(mapa[n][1]))
         ELSE bucle_generico(key, n + 1, mejor, largo)

resolver_sin_generico(nombre) ==
    bucle_con_color(strip(lower(nombre)), 1, None, 0)

resolver_una_fase(nombre) ==
    bucle_generico(strip(lower(nombre)), 1, None, 0)

resolver(nombre) ==
    LET key == strip(lower(nombre))
        mejor_con_color == bucle_con_color(key, 1, None, 0)
    IN  IF mejor_con_color # None THEN mejor_con_color
        ELSE bucle_generico(key, 1, None, 0)

\* ------------------------------------------------------------------ segmenter
OrdenPrefijo == <<"O", "r", "d", "e", "n", " ", "#">>

Subtotal == <<"S", "u", "b", "t", "o", "t", "a", "l">>

palabras_clave == <<
    <<"c", "a", "m", "a">>, <<"s", "o", "f", "a">>, <<"m", "i", "n", "i">>, <<"e", "s", "c", "a", "l", "e", "r", "a">>, <<"m", "a", "n", "t", "a">>, <<"g", "a", "t", "i", "t", "o">>,
    <<"n", "o", "r", "d", "i", "c", "a">>, <<"p", "a", "n", "c", "h", "o">>, <<"g", "a", "r", "r", "a">>, <<"t", "i", "m", "o", "t", "e", "o">>, <<"m", "a", "n", "t", "i", "t", "a", "s">>,
    <<"r", "e", "m", "e", "r", "a", "s">>, <<"b", "u", "z", "o">>, <<"m", "a", "n", "t", "i", "t", "a">>, <<"h", "u", "e", "l", "l", "a">>, <<"c", "o", "r", "o", "n", "a">>,
    <<"h", "a", "m", "b", "u", "r", "g", "u", "e", "s", "a">>, <<"b", "a", "l", "l", "e", "n", "a">>, <<"c", "a", "c", "t", "u", "s">>, <<"p", "a", "n", "d", "a">>, <<"p", "a", "l", "t", "a">>,
    <<"a", "r", "g", "e", "n", "t", "i", "n", "a">>, <<"b", "o", "c", "a">>, <<"r", "i", "v", "e", "r">>, <<"i", "n", "t", "e", "r">>, <<"m", "a", "m", "i">> >>

es_palabra_clave(l) ==
    LET minusculas == lower(l)
    IN  \E n \in 1..Len(palabras_clave) : startswith(minusculas, palabras_clave[n])

\* Longest run of digits at the start of s.
RECURSIVE digitos_iniciales(_)
digitos_iniciales(s) ==
    IF Len(s) > 0 /\ EnAlfabeto(s[1], Digitos)
    THEN <<s[1]>> \o digitos_iniciales(SubSeq(s, 2, Len(s)))
    ELSE <<>>

\* group(1) of re.search(r'Orden #(\d+)', l), None when there is no match.
re_search_orden(l) ==
    LET resto(n) == SubSeq(l, n + Len(OrdenPrefijo), Len(l))
        hay == {n \in 1..Len(l) : /\ startswith(SubSeq(l, n, Len(l)), OrdenPrefijo)
                                  /\ digitos_iniciales(resto(n)) # <<>>}
    IN  IF hay = {} THEN None
        ELSE digitos_iniciales(resto(CHOOSE n \in hay : \A o \in hay : n <= o))

es_inicio_orden(l) == startswith(strip(l), OrdenPrefijo)

\* The index j at which the collection of the order's lines stops.
siguiente_orden(desde) ==
    LET otras == {x \in desde..(Len(lineas) - 1) : es_inicio_orden(lineas[x + 1])}
    IN  IF otras = {} THEN Len(lineas)
        ELSE CHOOSE x \in otras : \A y \in otras : x <= y

\* ordenes[num].append(item) on a defaultdict(list)
ordenes_append(num, item) ==
    IF num \in DOMAIN ordenes
    THEN [ordenes EXCEPT ![num] = Append(@, item)]
    ELSE ordenes @@ (num :> <<item>>)

\* grupos[info] += cant for every item, grupos being a defaultdict(int);
\* the result lists grupos.items() in insertion order.
RECURSIVE bucle_grupos_pisa(_, _, _)
bucle_grupos_pisa(productos, n, grupos) ==
    IF n > Len(productos) THEN grupos
    ELSE LET inf == productos[n][1]
             cant == productos[n][2]
             esta == {g \in 1..Len(grupos) : grupos[g][1] = inf}
         IN  IF esta = {}
             THEN bucle_grupos_pisa(productos, n + 1, Append(grupos, <<inf, cant>>))
             ELSE bucle_grupos_pisa(productos, n + 1,
                      [grupos EXCEPT ![CHOOSE g \in esta : TRUE] = <<inf, cant>>])

RECURSIVE bucle_grupos(_, _, _)
bucle_grupos(productos, n, grupos) ==
    IF n > Len(productos) THEN grupos
    ELSE LET inf == productos[n][1]
             cant == productos[n][2]
             esta == {g \in 1..Len(grupos) : grupos[g][1] = inf}
         IN  IF esta = {}
             THEN bucle_grupos(productos, n + 1, Append(grupos, <<inf, cant>>))
             ELSE bucle_grupos(productos, n + 1,
                      [grupos EXCEPT ![CHOOSE g \in esta : TRUE] = <<inf, @[2] + cant>>])

agrupar_sin_sumar(productos) == bucle_grupos_pisa(productos, 1, <<>>)

agrupar(productos) == bucle_grupos(productos, 1, <<>>)

\* Lines the text extraction can give (leading and trailing blanks included).
LineasPosibles == {
    <<"O", "r", "d", "e", "n", " ", "#", "1", "0", "0">>,
    <<"O", "r", "d", "e", "n", " ", "#", "1", "0", "1", " ">>,
    <<"O", "r", "d", "e", "n", " ", "#">>,
    <<"G", "a", "t", "i", "t", "o", " ", "V", "e", "r", "a", "n", "o", " ", "(", "T", "a", "l", "l", "a", " ", "M", " ">>,
    <<"B", "u", "z", "o", " ", "P", "a", "n", "d", "a">>,
    <<"C", "a", "m", "a">>,
    <<" ", "5", "0", "x", "5", "0", " ", "c", "m", ")">>,
    <<"3">>,
    <<"0">>,
    <<"S", "u", "b", "t", "o", "t", "a", "l", " ", "$", "5", "0", "0">> }

\* texto_completo.split('\n'): every page's text is followed by "\n", so the
\* last element is always the empty line.  The text starts with a line
\* 'Orden #...' (what comes before the first one is only skipped).
Documentos ==
    {cuerpo \o << <<>> >> :
        cuerpo \in UNION {{c \in [1..n -> LineasPosibles] : n > 0 => es_inicio_orden(c[1])}
                          : n \in 0..MaxLineas}}

Init ==
    /\ mapa = MAPA_PRODUCTOS
    /\ lineas \in Documentos
    /\ pc = "orden"
    /\ i = 0 /\ j = 0 /\ k = 0 /\ m = 0
    /\ num_orden = None
    /\ lineas_orden = <<>>
    /\ productos_en_orden = 0
    /\ nombre_producto = <<>>
    /\ cantidad = 0
    /\ cantidad_en_locals = FALSE
    /\ info = None
    /\ ordenes = <<>>
    /\ ordenes_agrupadas = <<>>
    /\ capturados = <<>>
    /\ productos_de_orden = <<>>
    /\ lineas_etiqueta = <<>>
    /\ otra = None
    /\ pendientes = <<>>
    /\ respuestas = <<>>
    /\ palabras = <<>>
    /\ altura = 0
    /\ seguimientos = <<>>
    /\ y_pos = None

\* while i < len(lineas): a line 'Orden #<digits>' opens an order
OrdenHeader_reinicia ==
    /\ pc = "orden"
    /\ i < Len(lineas)
    /\ startswith(strip(lineas[i + 1]), OrdenPrefijo)
    /\ re_search_orden(strip(lineas[i + 1])) # None
    /\ num_orden' = re_search_orden(strip(lineas[i + 1]))
    /\ j' = siguiente_orden(i + 1)
    /\ lineas_orden' = SubSeq(lineas, i + 2, j')
    /\ k' = 0
    /\ productos_en_orden' = 0
    /\ pc' = "producto"
    /\ ordenes' = [o \in DOMAIN ordenes |-> IF o = num_orden' THEN <<>> ELSE ordenes[o]]
    /\ UNCHANGED <<etiqueta, formato, hilos, mapa, lineas, i, m, nombre_producto, cantidad, cantidad_en_locals,
                   info, ordenes_agrupadas, capturados>>

OrdenHeader ==
    /\ pc = "orden"
    /\ i < Len(lineas)
    /\ startswith(strip(lineas[i + 1]), OrdenPrefijo)
    /\ re_search_orden(strip(lineas[i + 1])) # None
    /\ num_orden' = re_search_orden(strip(lineas[i + 1]))
    /\ j' = siguiente_orden(i + 1)
    /\ lineas_orden' = SubSeq(lineas, i + 2, j')
    /\ k' = 0
    /\ productos_en_orden' = 0
    /\ pc' = "producto"
    /\ UNCHANGED <<etiqueta, formato, hilos, mapa, lineas, i, m, nombre_producto, cantidad, cantidad_en_locals,
                   info, ordenes, ordenes_agrupadas, capturados>>

\* any other line of the document: i += 1
SaltarLinea ==
    /\ pc = "orden"
    /\ i < Len(lineas)
    /\ ~ (/\ startswith(strip(lineas[i + 1]), OrdenPrefijo)
          /\ re_search_orden(strip(lineas[i + 1])) # None)
    /\ i' = i + 1
    /\ UNCHANGED <<etiqueta, formato, hilos, mapa, lineas, pc, j, k, m, num_orden, lineas_orden, productos_en_orden,
                   nombre_producto, cantidad, cantidad_en_locals, info, ordenes,
                   ordenes_agrupadas, capturados>>

\* the scan of the document is over
FinDocumento ==
    /\ pc = "orden"
    /\ i >= Len(lineas)
    /\ pc' = "agrupar"
    /\ UNCHANGED <<etiqueta, formato, hilos, mapa, lineas, i, j, k, m, num_orden, lineas_orden, productos_en_orden,
                   nombre_producto, cantidad, cantidad_en_locals, info, ordenes,
                   ordenes_agrupadas, capturados>>

\* while k < len(lineas_orden): a line starting with a keyword starts a product
ProductoInicio ==
    /\ pc = "producto"
    /\ k < Len(lineas_orden)
    /\ es_palabra_clave(strip(lineas_orden[k + 1]))
    /\ productos_en_orden' = productos_en_orden + 1
    /\ nombre_producto' = strip(lineas_orden[k + 1])
    /\ m' = k + 1
    /\ pc' = "captura"
    /\ UNCHANGED <<etiqueta, formato, hilos, mapa, lineas, i, j, k, num_orden, lineas_orden, cantidad,
                   cantidad_en_locals, info, ordenes, ordenes_agrupadas, capturados>>

\* any other line of the order: k += 1
SaltarLineaOrden_sin_avanzar ==
    /\ pc = "producto"
    /\ k < Len(lineas_orden)
    /\ ~ es_palabra_clave(strip(lineas_orden[k + 1]))
    /\ k' = k
    /\ UNCHANGED <<etiqueta, formato, hilos, mapa, lineas, pc, i, j, m, num_orden, lineas_orden,
                   productos_en_orden, nombre_producto, cantidad, cantidad_en_locals, info,
                   ordenes, ordenes_agrupadas, capturados>>

SaltarLineaOrden ==
    /\ pc = "producto"
    /\ k < Len(lineas_orden)
    /\ ~ es_palabra_clave(strip(lineas_orden[k + 1]))
    /\ k' = k + 1
    /\ UNCHANGED <<etiqueta, formato, hilos, mapa, lineas, pc, i, j, m, num_orden, lineas_orden, productos_en_orden,
                   nombre_producto, cantidad, cantidad_en_locals, info, ordenes,
                   ordenes_agrupadas, capturados>>

\* the order's lines are exhausted: i = j
FinOrden ==
    /\ pc = "producto"
    /\ k >= Len(lineas_orden)
    /\ i' = j
    /\ pc' = "orden"
    /\ UNCHANGED <<etiqueta, formato, hilos, mapa, lineas, j, k, m, num_orden, lineas_orden, productos_en_orden,
                   nombre_producto, cantidad, cantidad_en_locals, info, ordenes,
                   ordenes_agrupadas, capturados>>

\* What follows the capture loop: resolve the product, record it, k = m.
Emitir(cant, m_final) ==
    /\ cantidad' = cant
    /\ cantidad_en_locals' = TRUE
    /\ info' = resolver(nombre_producto)
    /\ ordenes' = IF info' # None THEN ordenes_append(num_orden, <<info', cant>>)
                  ELSE ordenes
    /\ capturados' = Append(capturados, <<i, num_orden, nombre_producto, cant>>)
    /\ m' = m_final
    /\ k' = m_final
    /\ pc' = "producto"
    /\ UNCHANGED <<etiqueta, formato, hilos, mapa, lineas, i, j, num_orden, lineas_orden, productos_en_orden,
                   nombre_producto, ordenes_agrupadas>>

\* a line of digits only is the quantity; the line is consumed
CantidadNumerica_sin_consumir ==
    /\ pc = "captura"
    /\ m < Len(lineas_orden)
    /\ isdigit(strip(lineas_orden[m + 1]))
    /\ Emitir(int(strip(lineas_orden[m + 1])), m)

CantidadNumerica ==
    /\ pc = "captura"
    /\ m < Len(lineas_orden)
    /\ isdigit(strip(lineas_orden[m + 1]))
    /\ Emitir(int(strip(lineas_orden[m + 1])), m + 1)

\* a line with "Subtotal": quantity 1, the line is not consumed
CantidadSubtotal ==
    /\ pc = "captura"
    /\ m < Len(lineas_orden)
    /\ ~ isdigit(strip(lineas_orden[m + 1]))
    /\ contiene(strip(lineas_orden[m + 1]), Subtotal)
    /\ Emitir(1, m)

\* a line starting with a keyword: quantity 1, the line is not consumed
SiguienteProducto_consume ==
    /\ pc = "captura"
    /\ m < Len(lineas_orden)
    /\ ~ isdigit(strip(lineas_orden[m + 1]))
    /\ ~ contiene(strip(lineas_orden[m + 1]), Subtotal)
    /\ es_palabra_clave(strip(lineas_orden[m + 1]))
    /\ Emitir(1, m + 1)

SiguienteProducto_absorbe ==
    /\ pc = "captura"
    /\ m < Len(lineas_orden)
    /\ ~ isdigit(strip(lineas_orden[m + 1]))
    /\ ~ contiene(strip(lineas_orden[m + 1]), Subtotal)
    /\ es_palabra_clave(strip(lineas_orden[m + 1]))
    /\ nombre_producto' = nombre_producto \o <<" ">> \o strip(lineas_orden[m + 1])
    /\ m' = m + 1
    /\ UNCHANGED <<etiqueta, formato, hilos, mapa, lineas, pc, i, j, k, num_orden, lineas_orden,
                   productos_en_orden, cantidad, cantidad_en_locals, info, ordenes,
                   ordenes_agrupadas, capturados>>

SiguienteProducto ==
    /\ pc = "captura"
    /\ m < Len(lineas_orden)
    /\ ~ isdigit(strip(lineas_orden[m + 1]))
    /\ ~ contiene(strip(lineas_orden[m + 1]), Subtotal)
    /\ es_palabra_clave(strip(lineas_orden[m + 1]))
    /\ Emitir(1, m)

\* any other line is part of the product's text
Continuacion ==
    /\ pc = "captura"
    /\ m < Len(lineas_orden)
    /\ ~ isdigit(strip(lineas_orden[m + 1]))
    /\ ~ contiene(strip(lineas_orden[m + 1]), Subtotal)
    /\ ~ es_palabra_clave(strip(lineas_orden[m + 1]))
    /\ nombre_producto' = nombre_producto \o <<" ">> \o strip(lineas_orden[m + 1])
    /\ m' = m + 1
    /\ UNCHANGED <<etiqueta, formato, hilos, mapa, lineas, pc, i, j, k, num_orden, lineas_orden, productos_en_orden,
                   cantidad, cantidad_en_locals, info, ordenes, ordenes_agrupadas,
                   capturados>>

\* the order's lines end before any of the three: 'cantidad' is set to 1 only
\* if it is not in locals()
FinLineasOrden ==
    /\ pc = "captura"
    /\ m >= Len(lineas_orden)
    /\ Emitir(IF cantidad_en_locals THEN cantidad ELSE 1, m)

\* Agrupar productos por orden
Agrupar ==
    /\ pc = "agrupar"
    /\ ordenes_agrupadas' = [o \in DOMAIN ordenes |-> agrupar(ordenes[o])]
    /\ pc' = "fin"
    /\ UNCHANGED <<etiqueta, formato, hilos, mapa, lineas, i, j, k, m, num_orden, lineas_orden, productos_en_orden,
                   nombre_producto, cantidad, cantidad_en_locals, info, ordenes,
                   capturados>>

Next ==
    \/ OrdenHeader
    \/ SaltarLinea
    \/ FinDocumento
    \/ ProductoInicio
    \/ SaltarLineaOrden
    \/ FinOrden
    \/ CantidadNumerica
    \/ CantidadSubtotal
    \/ SiguienteProducto
    \/ Continuacion
    \/ FinLineasOrden
    \/ Agrupar

Spec == Init /\ [][Next]_vars

\* Documents for the runs to the end: every kind of line, in the places where
\* it ends a product, goes on with it, ends an order or is skipped.
DocumentosJustos == {
    << <<>> >>,
    <<<<"O", "r", "d", "e", "n", " ", "#", "1", "0", "0">>, <<"G", "a", "t", "i", "t", "o", " ", "V", "e", "r", "a", "n", "o", " ", "(", "T", "a", "l", "l", "a", " ", "M", " ">>, <<"3">>, <<>> >>,
    <<<<"O", "r", "d", "e", "n", " ", "#", "1", "0", "0">>, <<"C", "a", "m", "a">>, <<" ", "5", "0", "x", "5", "0", " ", "c", "m", ")">>, <<"S", "u", "b", "t", "o", "t", "a", "l", " ", "$", "5", "0", "0">>, <<>> >>,
    <<<<"O", "r", "d", "e", "n", " ", "#", "1", "0", "0">>, <<"B", "u", "z", "o", " ", "P", "a", "n", "d", "a">>, <<"G", "a", "t", "i", "t", "o", " ", "V", "e", "r", "a", "n", "o", " ", "(", "T", "a", "l", "l", "a", " ", "M", " ">>, <<>> >>,
    <<<<"O", "r", "d", "e", "n", " ", "#", "1", "0", "0">>, <<"B", "u", "z", "o", " ", "P", "a", "n", "d", "a">>, <<"3">>, <<"O", "r", "d", "e", "n", " ", "#", "1", "0", "1", " ">>, <<"G", "a", "t", "i", "t", "o", " ", "V", "e", "r", "a", "n", "o", " ", "(", "T", "a", "l", "l", "a", " ", "M", " ">>, <<>> >>,
    <<<<"O", "r", "d", "e", "n", " ", "#", "1", "0", "0">>, <<"O", "r", "d", "e", "n", " ", "#">>, <<"G", "a", "t", "i", "t", "o", " ", "V", "e", "r", "a", "n", "o", " ", "(", "T", "a", "l", "l", "a", " ", "M", " ">>, <<>> >>,
    <<<<"O", "r", "d", "e", "n", " ", "#", "1", "0", "0">>, <<"G", "a", "t", "i", "t", "o", " ", "V", "e", "r", "a", "n", "o", " ", "(", "T", "a", "l", "l", "a", " ", "M", " ">>, <<"S", "u", "b", "t", "o", "t", "a", "l", " ", "$", "5", "0", "0">>, <<"B", "u", "z", "o", " ", "P", "a", "n", "d", "a">>, <<"0">>, <<>> >>,
    <<<<"O", "r", "d", "e", "n", " ", "#", "1", "0", "0">>, <<"O", "r", "d", "e", "n", " ", "#", "1", "0", "0">>, <<"B", "u", "z", "o", " ", "P", "a", "n", "d", "a">>, <<>> >>,
    <<<<"O", "r", "d", "e", "n", " ", "#", "1", "0", "1", " ">>, <<"3">>, <<"C", "a", "m", "a">>, <<"C", "a", "m", "a">>, <<>> >>,
    <<<<"O", "r", "d", "e", "n", " ", "#">>, <<"G", "a", "t", "i", "t", "o", " ", "V", "e", "r", "a", "n", "o", " ", "(", "T", "a", "l", "l", "a", " ", "M", " ">>, <<>> >>,
    <<<<"3">>, <<"O", "r", "d", "e", "n", " ", "#", "1", "0", "1", " ">>, <<" ", "5", "0", "x", "5", "0", " ", "c", "m", ")">>, <<"B", "u", "z", "o", " ", "P", "a", "n", "d", "a">>, <<" ", "5", "0", "x", "5", "0", " ", "c", "m", ")">>, <<"C", "a", "m", "a">>, <<>> >>,
    <<<<"O", "r", "d", "e", "n", " ", "#", "1", "0", "0">>, <<"C", "a", "m", "a">>, <<"C", "a", "m", "a">>, <<"C", "a", "m", "a">>, <<"0">>, <<"O", "r", "d", "e", "n", " ", "#", "1", "0", "0">>, <<"C", "a", "m", "a">>, <<>> >>,
    <<<<"O", "r", "d", "e", "n", " ", "#", "1", "0", "1", " ">>, <<"S", "u", "b", "t", "o", "t", "a", "l", " ", "$", "5", "0", "0">>, <<"G", "a", "t", "i", "t", "o", " ", "V", "e", "r", "a", "n", "o", " ", "(", "T", "a", "l", "l", "a", " ", "M", " ">>, <<" ", "5", "0", "x", "5", "0", " ", "c", "m", ")">>, <<"3">>, <<"3">>, <<>> >>,
    <<<<"O", "r", "d", "e", "n", " ", "#", "1", "0", "0">>, <<"B", "u", "z", "o", " ", "P", "a", "n", "d", "a">>, <<"O", "r", "d", "e", "n", " ", "#">>, <<"G", "a", "t", "i", "t", "o", " ", "V", "e", "r", "a", "n", "o", " ", "(", "T", "a", "l", "l", "a", " ", "M", " ">>, <<"3">>,
      <<"O", "r", "d", "e", "n", " ", "#", "1", "0", "1", " ">>, <<"B", "u", "z", "o", " ", "P", "a", "n", "d", "a">>, <<"S", "u", "b", "t", "o", "t", "a", "l", " ", "$", "5", "0", "0">>, <<>> >> }

InitJusto ==
    /\ mapa = MAPA_PRODUCTOS
    /\ lineas \in DocumentosJustos
    /\ pc = "orden"
    /\ i = 0 /\ j = 0 /\ k = 0 /\ m = 0
    /\ num_orden = None
    /\ lineas_orden = <<>>
    /\ productos_en_orden = 0
    /\ nombre_producto = <<>>
    /\ cantidad = 0
    /\ cantidad_en_locals = FALSE
    /\ info = None
    /\ ordenes = <<>>
    /\ ordenes_agrupadas = <<>>
    /\ capturados = <<>>
    /\ productos_de_orden = <<>>
    /\ lineas_etiqueta = <<>>
    /\ otra = None
    /\ pendientes = <<>>
    /\ respuestas = <<>>
    /\ palabras = <<>>
    /\ altura = 0
    /\ seguimientos = <<>>
    /\ y_pos = None

\* The call runs in one thread, and the interpreter always runs its next
\* statement: a step that can be taken is taken.
SpecJusto == InitJusto /\ [][Next]_vars /\ WF_vars(Next)


\* ------------------------------------------------------------------ resolver alone
AlfabetoTexto == {"a", "b", "A", " "}

Colores == {<<>>, <<"G", "r", "i", "s">>}

Textos == UNION {[1..n -> AlfabetoTexto] : n \in 0..MaxTexto}

\* Keys of the table: three that are prefixes of one another and one that is not.
Prefijos == {<<"a">>, <<"a", "b">>, <<"a", "b", "b">>, <<"b">>}

\* An entry's info carries its own prefix as the model, so that the entry
\* a result comes from can be told.
Entradas == {<<p, <<<<"D", "E", "C", "O">>, p, c, <<"M">>>> >> : p \in Prefijos, c \in Colores}

\* Tables with no repeated key, in every order.
Mapas ==
    UNION {{t \in [1..n -> Entradas] : \A a, b \in 1..n : a # b => t[a][1] # t[b][1]}
           : n \in 0..MaxEntradas}

InitResolver ==
    /\ mapa \in Mapas
    /\ nombre_producto \in Textos
    /\ pc = "resolver"
    /\ lineas = <<>>
    /\ i = 0 /\ j = 0 /\ k = 0 /\ m = 0
    /\ num_orden = None
    /\ lineas_orden = <<>>
    /\ productos_en_orden = 0
    /\ cantidad = 0
    /\ cantidad_en_locals = FALSE
    /\ info = None
    /\ ordenes = <<>>
    /\ ordenes_agrupadas = <<>>
    /\ capturados = <<>>
    /\ productos_de_orden = <<>>
    /\ lineas_etiqueta = <<>>
    /\ otra = None
    /\ pendientes = <<>>
    /\ respuestas = <<>>
    /\ palabras = <<>>
    /\ altura = 0
    /\ seguimientos = <<>>
    /\ y_pos = None

\* info = resolver(nombre_producto)
Resolver ==
    /\ pc = "resolver"
    /\ info' = resolver(nombre_producto)
    /\ pc' = "resuelto"
    /\ UNCHANGED <<etiqueta, formato, hilos, mapa, lineas, i, j, k, m, num_orden, lineas_orden,
                   productos_en_orden, nombre_producto, cantidad, cantidad_en_locals,
                   ordenes, ordenes_agrupadas, capturados>>

NextResolver == Resolver

SpecResolver == InitResolver /\ [][NextResolver]_vars

\* ------------------------------------------------------------------ aggregation alone
ID100 == <<"1", "0", "0">>

ID101 == <<"1", "0", "1">>

ItemsPosibles ==
    {<<MAPA_PRODUCTOS[n][2], c>> : n \in {2, 5, 10}, c \in 0..MaxCantidad}

\* The lists of all orders of ps, a list being never empty.
Reordenadas(ps) ==
    {[n \in 1..Len(ps) |-> ps[f[n]]] : f \in Permutations(1..Len(ps))}

InitAgrupar ==
    /\ \E ps \in UNION {[1..n -> ItemsPosibles] : n \in 1..MaxItems} :
           \E qs \in Reordenadas(ps) : ordenes = (ID100 :> ps) @@ (ID101 :> qs)
    /\ pc = "agrupar"
    /\ mapa = MAPA_PRODUCTOS
    /\ lineas = <<>>
    /\ i = 0 /\ j = 0 /\ k = 0 /\ m = 0
    /\ num_orden = None
    /\ lineas_orden = <<>>
    /\ productos_en_orden = 0
    /\ nombre_producto = <<>>
    /\ cantidad = 0
    /\ cantidad_en_locals = FALSE
    /\ info = None
    /\ ordenes_agrupadas = <<>>
    /\ capturados = <<>>
    /\ productos_de_orden = <<>>
    /\ lineas_etiqueta = <<>>
    /\ otra = None
    /\ pendientes = <<>>
    /\ respuestas = <<>>
    /\ palabras = <<>>
    /\ altura = 0
    /\ seguimientos = <<>>
    /\ y_pos = None

NextAgrupar == Agrupar

SpecAgrupar == InitAgrupar /\ [][NextAgrupar]_vars

\* ------------------------------------------------------------------ anchor of a label page
UN_CM == 2835

EXTRA_IMPORTANTE == 5000

FALLBACK == 8000

Seguimiento == <<"s", "e", "g", "u", "i", "m", "i", "e", "n", "t", "o">>

Importante == <<"i", "m", "p", "o", "r", "t", "a", "n", "t", "e">>

\* re.search(r'\d{10,}', s)
numero_largo(s) ==
    \E n \in 1..(Len(s) - 9) : isdigit(SubSeq(s, n, n + 9))

\* key of the three sorts: lambda w: w[3]
clave_y0(w) == w[2]

clave(w) == w[4]

\* list.sort(key=...): stable, ascending
RECURSIVE ordenar(_)
ordenar(ws) ==
    IF Len(ws) <= 1 THEN ws
    ELSE LET antes == ordenar(SubSeq(ws, 1, Len(ws) - 1))
             w == ws[Len(ws)]
             pos == Cardinality({n \in 1..Len(antes) : clave(antes[n]) <= clave(w)})
         IN  SubSeq(antes, 1, pos) \o <<w>> \o SubSeq(antes, pos + 1, Len(antes))

es_seguimiento(w) == contiene(lower(w[5]), Seguimiento)

es_importante(w) == contiene(lower(w[5]), Importante)

es_numero(w) == numero_largo(w[5])

importantes == ordenar(SelectSeq(palabras, es_importante))

numeros == ordenar(SelectSeq(palabras, es_numero))

TextosPalabra == {<<"S", "e", "g", "u", "i", "m", "i", "e", "n", "t", "o", ":">>, <<"I", "M", "P", "O", "R", "T", "A", "N", "T", "E", ":">>, <<"1", "2", "3", "4", "5", "6", "7", "8", "9", "0">>, <<"1", "2", "3", "4", "5", "6", "7", "8", "9">>}

\* <<y0, y1>> of a word: two short boxes and a tall one around them
Cajas == {<<9000, 10000>>, <<29000, 30000>>, <<8000, 32000>>}

PalabrasPosibles == {<<2000, c[1], 9000, c[2], t>> : c \in Cajas, t \in TextosPalabra}

Alturas == {84200}

InitLocate ==
    /\ palabras \in UNION {[1..n -> PalabrasPosibles] : n \in 0..MaxPalabras}
    /\ altura \in Alturas
    /\ seguimientos = <<>>
    /\ y_pos = None
    /\ pc = "seguimientos"
    /\ mapa = MAPA_PRODUCTOS
    /\ lineas = <<>>
    /\ i = 0 /\ j = 0 /\ k = 0 /\ m = 0
    /\ num_orden = None
    /\ lineas_orden = <<>>
    /\ productos_en_orden = 0
    /\ nombre_producto = <<>>
    /\ cantidad = 0
    /\ cantidad_en_locals = FALSE
    /\ info = None
    /\ ordenes = <<>>
    /\ ordenes_agrupadas = <<>>
    /\ capturados = <<>>
    /\ productos_de_orden = <<>>
    /\ lineas_etiqueta = <<>>
    /\ otra = None
    /\ pendientes = <<>>
    /\ respuestas = <<>>

segmento == <<mapa, lineas, i, j, k, m, num_orden, lineas_orden, productos_en_orden,
              nombre_producto, cantidad, cantidad_en_locals, info, ordenes,
              ordenes_agrupadas, capturados>>

\* collect the words containing "seguimiento" and sort them
BuscarSeguimientos ==
    /\ pc = "seguimientos"
    /\ seguimientos' = ordenar(SelectSeq(palabras, es_seguimiento))
    /\ y_pos' = None
    /\ pc' = "casos"
    /\ UNCHANGED <<segmento, formato, hilos, palabras, altura>>

\* CASO 1: two or more: the second one
Caso1 ==
    /\ pc = "casos"
    /\ Len(seguimientos) >= 2
    /\ y_pos' = <<seguimientos[2][4] + UN_CM>>
    /\ pc' = "numeros"
    /\ UNCHANGED <<segmento, formato, hilos, palabras, altura, seguimientos>>

\* CASO 2: exactly one, and a word containing "importante": the last of these
Caso2Importante_primero ==
    /\ pc = "casos"
    /\ Len(seguimientos) = 1
    /\ importantes # <<>>
    /\ y_pos' = <<importantes[1][4] + UN_CM + EXTRA_IMPORTANTE>>
    /\ pc' = "numeros"
    /\ UNCHANGED <<segmento, formato, hilos, palabras, altura, seguimientos>>

Caso2Importante ==
    /\ pc = "casos"
    /\ Len(seguimientos) = 1
    /\ importantes # <<>>
    /\ y_pos' = <<importantes[Len(importantes)][4] + UN_CM + EXTRA_IMPORTANTE>>
    /\ pc' = "numeros"
    /\ UNCHANGED <<segmento, formato, hilos, palabras, altura, seguimientos>>

\* exactly one and no "importante", or none: y_pos stays None
SinCaso ==
    /\ pc = "casos"
    /\ \/ Len(seguimientos) = 0
       \/ Len(seguimientos) = 1 /\ importantes = <<>>
    /\ pc' = "numeros"
    /\ UNCHANGED <<segmento, formato, hilos, palabras, altura, seguimientos, y_pos>>

\* CASO 3: y_pos is None and a word has 10 digits or more: the last of these
Caso3Numeros_primero ==
    /\ pc = "numeros"
    /\ y_pos = None
    /\ numeros # <<>>
    /\ y_pos' = <<numeros[1][4] + UN_CM>>
    /\ pc' = "fallback"
    /\ UNCHANGED <<segmento, formato, hilos, palabras, altura, seguimientos>>

Caso3Numeros ==
    /\ pc = "numeros"
    /\ y_pos = None
    /\ numeros # <<>>
    /\ y_pos' = <<numeros[Len(numeros)][4] + UN_CM>>
    /\ pc' = "fallback"
    /\ UNCHANGED <<segmento, formato, hilos, palabras, altura, seguimientos>>

SinCaso3 ==
    /\ pc = "numeros"
    /\ y_pos # None \/ numeros = <<>>
    /\ pc' = "fallback"
    /\ UNCHANGED <<segmento, formato, hilos, palabras, altura, seguimientos, y_pos>>

\* CASO 4: y_pos is still None
Caso4 ==
    /\ pc = "fallback"
    /\ y_pos = None
    /\ y_pos' = <<altura - FALLBACK>>
    /\ pc' = "escribir"
    /\ UNCHANGED <<segmento, formato, hilos, palabras, altura, seguimientos>>

SinCaso4 ==
    /\ pc = "fallback"
    /\ y_pos # None
    /\ pc' = "escribir"
    /\ UNCHANGED <<segmento, formato, hilos, palabras, altura, seguimientos, y_pos>>

NextLocate ==
    \/ BuscarSeguimientos
    \/ Caso1
    \/ Caso2Importante
    \/ SinCaso
    \/ Caso3Numeros
    \/ SinCaso3
    \/ Caso4
    \/ SinCaso4

SpecLocate == InitLocate /\ [][NextLocate]_vars


\* ------------------------------------------------------------------ label text
MaxProductos == 2

\* f"{cant}": the decimal digits of a non-negative integer
RECURSIVE str(_)
str(n) ==
    IF n < 10 THEN <<Digitos[n + 1]>>
    ELSE str(n \div 10) \o <<Digitos[(n % 10) + 1]>>

\* s.split(sep)[0]: the text before the first sep, all of s when it has none
split_primero(s, sep) ==
    LET cortes == {n \in 1..Len(s) : s[n] = sep}
    IN  IF cortes = {} THEN s
        ELSE SubSeq(s, 1, (CHOOSE a \in cortes : \A b \in cortes : a <= b) - 1)

\* grupos[key] += cant with key = (cat, modelo, talle, color); a dict keeps
\* its keys in the order of their first insertion
RECURSIVE bucle_grupos_formato(_, _, _)
bucle_grupos_formato(prods, n, grupos) ==
    IF n > Len(prods) THEN grupos
    ELSE LET inf == prods[n][1]
             key == <<inf[1], inf[2], inf[4], inf[3]>>
             cant == prods[n][2]
             esta == {g \in 1..Len(grupos) : grupos[g][1] = key}
         IN  IF esta = {}
             THEN bucle_grupos_formato(prods, n + 1, Append(grupos, <<key, cant>>))
             ELSE bucle_grupos_formato(prods, n + 1,
                      [grupos EXCEPT ![CHOOSE g \in esta : TRUE] = <<key, @[2] + cant>>])

\* Caso especial: MANTA
linea_manta_color_entero(color, cant) ==
    <<"M", "a", "n", "t", "a", " ">> \o lower(color) \o <<" ", "x">> \o str(cant)

linea_manta(color, cant) ==
    <<"M", "a", "n", "t", "a", " ">> \o lower(split_primero(color, "/")) \o <<" ", "x">> \o str(cant)

\* Caso especial: GATITO INVIERNO
linea_gatito_invierno(talle, cant) ==
    <<"G", "a", "t", "i", "t", "o", " ", "i", "n", "v", "i", "e", "r", "n", "o", " ">> \o talle \o <<" ", "x">> \o str(cant)

\* Formato normal para el resto
linea_normal(modelo, talle, color, cant) ==
    IF color # <<>> /\ strip(color) # <<>>
    THEN modelo \o <<" ">> \o talle \o <<" ">> \o color \o <<" ", "x">> \o str(cant)
    ELSE modelo \o <<" ">> \o talle \o <<" ", "x">> \o str(cant)

linea_de(key, cant) ==
    LET cat == key[1]
        modelo == key[2]
        talle == key[3]
        color == key[4]
    IN  IF cat = <<"M", "A", "N", "T", "A">> THEN linea_manta(color, cant)
        ELSE IF cat = <<"I", "N", "V", "I", "E", "R", "N", "O">> /\ modelo = <<"G", "a", "t", "i", "t", "o">> THEN linea_gatito_invierno(talle, cant)
        ELSE linea_normal(modelo, talle, color, cant)

formatear_productos_orden(prods) ==
    LET grupos == bucle_grupos_formato(prods, 1, <<>>)
    IN  [g \in 1..Len(grupos) |-> linea_de(grupos[g][1], grupos[g][2])]

\* Descriptors of the table, one of each kind the formatter tells apart.
InfosFormato == {
    <<<<"V", "E", "R", "A", "N", "O">>, <<"G", "a", "t", "i", "t", "o">>, <<"B", "e", "i", "g", "e">>, <<"M">>>>,
    <<<<"I", "N", "V", "I", "E", "R", "N", "O">>, <<"G", "a", "t", "i", "t", "o">>, <<"B", "e", "i", "g", "e", "/", "M", "a", "r", "r", "ó", "n">>, <<"M">>>>,
    <<<<"A", "N", "T", "I", "E", "S", "T", "R", "E", "S">>, <<"P", "a", "n", "c", "h", "o">>, <<>>, <<"L">>>>,
    <<<<"M", "A", "N", "T", "A">>, <<"M", "a", "n", "t", "a", " ", "D", "o", "b", "l", "e", " ", "F", "a", "z">>, <<"G", "r", "i", "s", "/", "B", "l", "a", "n", "c", "o">>, <<"U">>>>,
    <<<<"M", "A", "N", "T", "A">>, <<"M", "a", "n", "t", "a", " ", "D", "o", "b", "l", "e", " ", "F", "a", "z">>, <<"B", "e", "i", "g", "e", "/", "B", "l", "a", "n", "c", "o">>, <<"U">>>>,
    <<<<"R", "O", "P", "I", "T", "A">>, <<"R", "o", "p", "i", "t", "a">>, <<"A", "r", "g", "e", "n", "t", "i", "n", "a">>, <<"U">>>> }

\* Quantities of one and of two digits.
CantidadesFormato == (0..MaxCantidad) \cup {12}

InitFormato ==
    /\ productos_de_orden \in
           UNION {[1..n -> InfosFormato \X CantidadesFormato] : n \in 0..MaxProductos}
    /\ lineas_etiqueta = <<>>
    /\ pc = "formatear"
    /\ mapa = MAPA_PRODUCTOS
    /\ lineas = <<>>
    /\ i = 0 /\ j = 0 /\ k = 0 /\ m = 0
    /\ num_orden = None
    /\ lineas_orden = <<>>
    /\ productos_en_orden = 0
    /\ nombre_producto = <<>>
    /\ cantidad = 0
    /\ cantidad_en_locals = FALSE
    /\ info = None
    /\ ordenes = <<>>
    /\ ordenes_agrupadas = <<>>
    /\ capturados = <<>>
    /\ palabras = <<>>
    /\ altura = 0
    /\ seguimientos = <<>>
    /\ y_pos = None
    /\ otra = None
    /\ pendientes = <<>>
    /\ respuestas = <<>>

\* lineas = formatear_productos_orden(productos, resolver)
Formatear ==
    /\ pc = "formatear"
    /\ lineas_etiqueta' = formatear_productos_orden(productos_de_orden)
    /\ pc' = "formateado"
    /\ UNCHANGED <<segmento, etiqueta, hilos, productos_de_orden>>

NextFormato == Formatear

SpecFormato == InitFormato /\ [][NextFormato]_vars


\* ------------------------------------------------------------------ two requests at once
\* The server handles each request in a thread of its own.  A call of
\* extraer_ordenes_con_fitz keeps everything it writes in its locals; the table
\* is the only module-level object it reads.  The variables of the segmenter
\* hold the locals of the call that is running now, otra those of the call
\* that is waiting.
locales ==
    [lineas |-> lineas, pc |-> pc, i |-> i, j |-> j, k |-> k, m |-> m,
     num_orden |-> num_orden, lineas_orden |-> lineas_orden,
     productos_en_orden |-> productos_en_orden, nombre_producto |-> nombre_producto,
     cantidad |-> cantidad, cantidad_en_locals |-> cantidad_en_locals, info |-> info,
     ordenes |-> ordenes, ordenes_agrupadas |-> ordenes_agrupadas,
     capturados |-> capturados]

\* No call: the thread is free.
sin_llamada ==
    [lineas |-> <<>>, pc |-> "libre", i |-> 0, j |-> 0, k |-> 0, m |-> 0,
     num_orden |-> None, lineas_orden |-> <<>>,
     productos_en_orden |-> 0, nombre_producto |-> <<>>,
     cantidad |-> 0, cantidad_en_locals |-> FALSE, info |-> None,
     ordenes |-> <<>>, ordenes_agrupadas |-> <<>>,
     capturados |-> <<>>]

\* The running thread takes up the frame c.
retomar(c) ==
    /\ lineas' = c.lineas /\ pc' = c.pc
    /\ i' = c.i /\ j' = c.j /\ k' = c.k /\ m' = c.m
    /\ num_orden' = c.num_orden
    /\ lineas_orden' = c.lineas_orden
    /\ productos_en_orden' = c.productos_en_orden
    /\ nombre_producto' = c.nombre_producto
    /\ cantidad' = c.cantidad
    /\ cantidad_en_locals' = c.cantidad_en_locals
    /\ info' = c.info
    /\ ordenes' = c.ordenes
    /\ ordenes_agrupadas' = c.ordenes_agrupadas
    /\ capturados' = c.capturados

DocumentosSimultaneos == {
    <<<<"O", "r", "d", "e", "n", " ", "#", "1", "0", "0">>, <<"B", "u", "z", "o", " ", "P", "a", "n", "d", "a">>, <<"3">>, <<"O", "r", "d", "e", "n", " ", "#", "1", "0", "1", " ">>, <<"G", "a", "t", "i", "t", "o", " ", "V", "e", "r", "a", "n", "o", " ", "(", "T", "a", "l", "l", "a", " ", "M", " ">>, <<>> >>,
    <<<<"O", "r", "d", "e", "n", " ", "#">>, <<"O", "r", "d", "e", "n", " ", "#", "1", "0", "1", " ">>, <<"G", "a", "t", "i", "t", "o", " ", "V", "e", "r", "a", "n", "o", " ", "(", "T", "a", "l", "l", "a", " ", "M", " ">>, <<>> >>,
    <<<<"O", "r", "d", "e", "n", " ", "#", "1", "0", "0">>, <<"C", "a", "m", "a">>, <<" ", "5", "0", "x", "5", "0", " ", "c", "m", ")">>, <<"S", "u", "b", "t", "o", "t", "a", "l", " ", "$", "5", "0", "0">>, <<"B", "u", "z", "o", " ", "P", "a", "n", "d", "a">>,
      <<"G", "a", "t", "i", "t", "o", " ", "V", "e", "r", "a", "n", "o", " ", "(", "T", "a", "l", "l", "a", " ", "M", " ">>, <<"3">>, <<>> >> }

\* Three requests: the first document is sent again after the second.
InitSimultaneo ==
    /\ \E d1 \in DocumentosSimultaneos : \E d2 \in DocumentosSimultaneos :
           pendientes = <<d1, d2, d1>>
    /\ respuestas = <<>>
    /\ otra = sin_llamada
    /\ mapa = MAPA_PRODUCTOS
    /\ lineas = <<>>
    /\ pc = "libre"
    /\ i = 0 /\ j = 0 /\ k = 0 /\ m = 0
    /\ num_orden = None
    /\ lineas_orden = <<>>
    /\ productos_en_orden = 0
    /\ nombre_producto = <<>>
    /\ cantidad = 0
    /\ cantidad_en_locals = FALSE
    /\ info = None
    /\ ordenes = <<>>
    /\ ordenes_agrupadas = <<>>
    /\ capturados = <<>>
    /\ palabras = <<>>
    /\ altura = 0
    /\ seguimientos = <<>>
    /\ y_pos = None
    /\ productos_de_orden = <<>>
    /\ lineas_etiqueta = <<>>

\* a free thread takes the next request and enters extraer_ordenes_con_fitz
Iniciar ==
    /\ pc = "libre"
    /\ pendientes # <<>>
    /\ lineas' = Head(pendientes)
    /\ pendientes' = Tail(pendientes)
    /\ pc' = "orden"
    /\ UNCHANGED <<etiqueta, formato, mapa, i, j, k, m, num_orden, lineas_orden,
                   productos_en_orden, nombre_producto, cantidad, cantidad_en_locals, info,
                   ordenes, ordenes_agrupadas, capturados, otra, respuestas>>

\* the interpreter switches to the other thread, 'cantidad' being a name of
\* the module and not of the frame
Cambiar_cantidad_global ==
    /\ locales # otra
    /\ otra' = locales
    /\ lineas' = otra.lineas /\ pc' = otra.pc
    /\ i' = otra.i /\ j' = otra.j /\ k' = otra.k /\ m' = otra.m
    /\ num_orden' = otra.num_orden
    /\ lineas_orden' = otra.lineas_orden
    /\ productos_en_orden' = otra.productos_en_orden
    /\ nombre_producto' = otra.nombre_producto
    /\ info' = otra.info
    /\ ordenes' = otra.ordenes
    /\ ordenes_agrupadas' = otra.ordenes_agrupadas
    /\ capturados' = otra.capturados
    /\ UNCHANGED <<etiqueta, formato, mapa, pendientes, respuestas, cantidad,
                   cantidad_en_locals>>

\* the interpreter switches to the other thread: each one has its frame
Cambiar ==
    /\ locales # otra
    /\ otra' = locales
    /\ retomar(otra)
    /\ UNCHANGED <<etiqueta, formato, mapa, pendientes, respuestas>>

\* return ordenes_agrupadas: the request is answered and the thread is free
Responder ==
    /\ pc = "fin"
    /\ respuestas' = Append(respuestas, <<lineas, ordenes_agrupadas>>)
    /\ retomar(sin_llamada)
    /\ UNCHANGED <<etiqueta, formato, mapa, otra, pendientes>>

NextSimultaneo ==
    \/ Iniciar
    \/ Cambiar
    \/ Responder
    \/ OrdenHeader
    \/ SaltarLinea
    \/ FinDocumento
    \/ ProductoInicio
    \/ SaltarLineaOrden
    \/ FinOrden
    \/ CantidadNumerica
    \/ CantidadSubtotal
    \/ SiguienteProducto
    \/ Continuacion
    \/ FinLineasOrden
    \/ Agrupar

SpecSimultaneo == InitSimultaneo /\ [][NextSimultaneo]_vars


\* ================================================================== properties
\* ------------------------------------------------------------------ segmenter
Descriptores == {mapa[n][2] : n \in 1..Len(mapa)}

\* Ids of the header lines of the document.
IdsDocumento ==
    {re_search_orden(strip(lineas[x])) : x \in 1..Len(lineas)} \ {None}

\* The blocks (index of the header line) of an order id.
BloquesDe(o) ==
    {x \in 0..(Len(lineas) - 1) : /\ es_inicio_orden(lineas[x + 1])
                                  /\ re_search_orden(strip(lineas[x + 1])) = o}

\* What resolver gives for the text of each captured product.
Resueltos == [n \in 1..Len(capturados) |-> resolver(capturados[n][3])]

\* Sum of the quantities of the captured products of order o, in the blocks
\* bs, whose text resolves to d (res: what each text resolves to).
CantidadCapturada(res, o, d, bs) ==
    LET S[n \in 0..Len(capturados)] ==
            IF n = 0 THEN 0
            ELSE S[n - 1] + (IF /\ capturados[n][2] = o
                                /\ capturados[n][1] \in bs
                                /\ res[n] = d
                             THEN capturados[n][4] ELSE 0)
    IN  S[Len(capturados)]

CapturadosDe(res, o, d) ==
    {n \in 1..Len(capturados) : capturados[n][2] = o /\ res[n] = d}

\* Entries of the result of order o for descriptor d.
EntradasDe(o, d) ==
    IF o \in DOMAIN ordenes_agrupadas
    THEN {n \in 1..Len(ordenes_agrupadas[o]) : ordenes_agrupadas[o][n][1] = d}
    ELSE {}

\* Quantity of d in the result of order o, 0 when it has none.
CantidadAgrupada(o, d) ==
    IF o \in DOMAIN ordenes_agrupadas
    THEN LET l == ordenes_agrupadas[o]
             S[n \in 0..Len(l)] ==
                 IF n = 0 THEN 0 ELSE S[n - 1] + (IF l[n][1] = d THEN l[n][2] ELSE 0)
         IN  S[Len(l)]
    ELSE 0

UltimoBloque(o) == CHOOSE x \in BloquesDe(o) : \A y \in BloquesDe(o) : y <= x

\* The text of a product: its start line k and the lines up to m (0-based,
\* m excluded), stripped and joined with one space.
RECURSIVE Unidas(_, _)
Unidas(desde, hasta) ==
    IF hasta <= desde + 1 THEN strip(lineas_orden[desde + 1])
    ELSE Unidas(desde, hasta - 1) \o <<" ">> \o strip(lineas_orden[hasta])

\* C1: a product whose lines reach the end of the order's lines without a
\* numeric line, a Subtotal line or a keyword line is emitted with quantity 1.
C1_FinDeOrdenDaUno ==
    [][(pc = "captura" /\ m >= Len(lineas_orden)) => cantidad' = 1]_vars

Escenario1 ==
    << <<"O", "r", "d", "e", "n", " ", "#", "1", "0", "0">>, <<"G", "a", "t", "i", "t", "o", " ", "V", "e", "r", "a", "n", "o", " ", "(", "T", "a", "l", "l", "a", " ", "M", " ">>, <<"3">>, <<"S", "u", "b", "t", "o", "t", "a", "l", " ", "$", "5", "0", "0">>, <<>> >>

GatitoVeranoM == <<<<"V", "E", "R", "A", "N", "O">>, <<"G", "a", "t", "i", "t", "o">>, <<"B", "e", "i", "g", "e">>, <<"M">>>>

\* C3: when a numeric line ends the capture, the product is emitted with that
\* integer as quantity and with the start line and the lines before the
\* numeric line, joined with one space, as text; the numeric line is consumed
\* and the scan resumes after it.  The lines Orden #100 / Gatito Verano (Talla M /
\* 3 / Subtotal $500 give one item of quantity 3 for order 100.
C3_CantidadNumerica ==
    /\ [][(pc = "captura" /\ m < Len(lineas_orden) /\ isdigit(strip(lineas_orden[m + 1])))
          => /\ cantidad' = int(strip(lineas_orden[m + 1]))
             /\ (strip(lineas_orden[m + 1]) = <<"3">> => cantidad' = 3)
             /\ nombre_producto' = Unidas(k, m)
             /\ capturados' = Append(capturados, <<i, num_orden, Unidas(k, m), cantidad'>>)
             /\ k' = m + 1
             /\ pc' = "producto"]_vars
    /\ [](pc = "fin" /\ lineas = Escenario1
          => ordenes_agrupadas = (ID100 :> << <<GatitoVeranoM, 3>> >>))

C3_Testigo ==
    /\ pc = "fin"
    /\ \E n \in 1..Len(lineas) - 3 :
          /\ es_palabra_clave(lineas[n])
          /\ ~ es_palabra_clave(lineas[n + 1]) /\ ~ isdigit(strip(lineas[n + 1]))
          /\ ~ contiene(lineas[n + 1], Subtotal) /\ ~ es_inicio_orden(lineas[n + 1])
          /\ lineas[n + 2] = <<"3">>
          /\ \E c \in 1..Len(capturados) :
                /\ capturados[c][3] = strip(lineas[n]) \o <<" ">> \o strip(lineas[n + 1])
                /\ capturados[c][4] = 3
                /\ resolver(capturados[c][3]) = GatitoVeranoM
                /\ CantidadAgrupada(capturados[c][2], GatitoVeranoM) = 3

\* C6: the aggregated quantity of a descriptor in an order is the sum of the
\* quantities of the captured products of that order whose text resolves to
\* it; unresolved products appear nowhere and change nothing.
C6_SumaPorDescriptor ==
    pc = "fin" =>
        LET res == Resueltos
            ds == Descriptores
        IN  /\ \A o \in DOMAIN ordenes_agrupadas :
                  \A n \in 1..Len(ordenes_agrupadas[o]) :
                      ordenes_agrupadas[o][n][1] \in ds
            /\ \A o \in IdsDocumento \cup DOMAIN ordenes_agrupadas : \A d \in ds :
                  IF CapturadosDe(res, o, d) = {} THEN EntradasDe(o, d) = {}
                  ELSE /\ Cardinality(EntradasDe(o, d)) = 1
                       /\ CantidadAgrupada(o, d) = CantidadCapturada(res, o, d, 0..Len(lineas))

C6_Testigo ==
    /\ pc = "fin"
    /\ LET res == Resueltos
       IN  \E o \in DOMAIN ordenes_agrupadas : \E d \in Descriptores :
              /\ Cardinality(CapturadosDe(res, o, d)) >= 2
              /\ CantidadAgrupada(o, d) >= 2
              /\ \E n \in 1..Len(capturados) : capturados[n][2] = o /\ res[n] = None

\* C8: every quantity emitted and every aggregated quantity is at least 1.
C8_CantidadesPositivas ==
    /\ \A o \in DOMAIN ordenes : \A n \in 1..Len(ordenes[o]) : ordenes[o][n][2] >= 1
    /\ \A o \in DOMAIN ordenes_agrupadas :
          \A n \in 1..Len(ordenes_agrupadas[o]) : ordenes_agrupadas[o][n][2] >= 1

\* ------------------------------------------------------------------ resolver
\* Entries whose prefix is a prefix of the lowercased, trimmed text.
Coincidentes ==
    {n \in 1..Len(mapa) : startswith(strip(lower(nombre_producto)), mapa[n][1])}

ConColor == {n \in Coincidentes : mapa[n][2][3] # <<>>}

MasLargo(n, S) == \A o \in S : Len(mapa[o][1]) <= Len(mapa[n][1])

\* C4: resolver returns None exactly when no prefix of the table is a prefix
\* of the normalized text, and otherwise the info of an entry whose prefix is.
C4_PrefijoLiteral ==
    pc = "resuelto" =>
        /\ info = None <=> Coincidentes = {}
        /\ info # None => \E n \in Coincidentes : info = mapa[n][2]

C4_Testigo ==
    /\ pc = "resuelto"
    /\ info # None
    /\ nombre_producto # strip(lower(nombre_producto))
    /\ \E n \in 1..Len(mapa) : n \notin Coincidentes

C4_TestigoNone ==
    /\ pc = "resuelto"
    /\ info = None
    /\ Len(mapa) > 0

\* C5: when an entry with a color matches, the result is the matching entry
\* with a color that has the longest prefix, even if an entry without color
\* matches with a longer prefix; otherwise it is the matching entry with the
\* longest prefix.
C5_DosFases ==
    pc = "resuelto" =>
        /\ ConColor # {} =>
              \E n \in ConColor : info = mapa[n][2] /\ MasLargo(n, ConColor)
        /\ (ConColor = {} /\ Coincidentes # {}) =>
              \E n \in Coincidentes : info = mapa[n][2] /\ MasLargo(n, Coincidentes)

C5_Testigo ==
    /\ pc = "resuelto"
    /\ \E n \in ConColor : \E o \in Coincidentes \ ConColor :
          /\ Len(mapa[o][1]) > Len(mapa[n][1])
          /\ info = mapa[n][2]
    /\ Cardinality(ConColor) >= 2

\* The entries of the table as a set: what is left of it when the order of
\* its entries is forgotten.
EntradasTabla == {mapa[n] : n \in 1..Len(mapa)}

EntradasCoincidentes ==
    {e \in EntradasTabla : startswith(strip(lower(nombre_producto)), e[1])}

\* C19: the result of resolver does not depend on the order in which the
\* table is gone through: two different prefixes of the same length never
\* both match a text, so in each phase the longest match is one entry only,
\* and the result is its info, whatever the place of the entry in the table.
C19_OrdenDeTabla ==
    pc = "resuelto" =>
        LET conColor == {e \in EntradasCoincidentes : tiene_color(e[2])}
            fase == IF conColor # {} THEN conColor ELSE EntradasCoincidentes
            masLargos == {e \in fase : \A o \in fase : Len(o[1]) <= Len(e[1])}
        IN  /\ \A a, b \in EntradasCoincidentes : Len(a[1]) = Len(b[1]) => a = b
            /\ Cardinality(masLargos) <= 1
            /\ info = IF fase = {} THEN None ELSE (CHOOSE e \in masLargos : TRUE)[2]

\* Two entries of the deciding phase match, the longer one being met first.
C19_Testigo ==
    /\ pc = "resuelto"
    /\ \E a, b \in ConColor : /\ a < b
                              /\ Len(mapa[a][1]) > Len(mapa[b][1])
                              /\ MasLargo(a, ConColor)
                              /\ info = mapa[a][2]

\* ------------------------------------------------------------------ aggregation
ComoMapa(l) == {l[n] : n \in 1..Len(l)}

\* C7: two lists of items that are permutations of one another aggregate to
\* the same mapping from descriptor to quantity.
C7_OrdenIndiferente ==
    pc = "fin" =>
        /\ ComoMapa(ordenes_agrupadas[ID100]) = ComoMapa(ordenes_agrupadas[ID101])
        /\ \A a, b \in 1..Len(ordenes_agrupadas[ID101]) :
              a # b => ordenes_agrupadas[ID101][a][1] # ordenes_agrupadas[ID101][b][1]

C7_Testigo ==
    /\ pc = "fin"
    /\ ordenes[ID100] # ordenes[ID101]
    /\ ordenes_agrupadas[ID100] # ordenes_agrupadas[ID101]
    /\ Len(ordenes_agrupadas[ID100]) < Len(ordenes[ID100])

\* ------------------------------------------------------------------ anchor
Segs == {n \in 1..Len(palabras) : es_seguimiento(palabras[n])}

Imps == {n \in 1..Len(palabras) : es_importante(palabras[n])}

Nums == {n \in 1..Len(palabras) : es_numero(palabras[n])}

\* Word t is second among the words S when these are put in ascending order
\* of field c (2: top edge y0, 4: bottom edge y1).
EsSegundo(t, S, c) ==
    /\ Cardinality({n \in S : palabras[n][c] < palabras[t][c]}) <= 1
    /\ Cardinality({n \in S : palabras[n][c] <= palabras[t][c]}) >= 2

\* C9 as stated: with two "seguimiento" words or more, the anchor is the
\* bottom edge plus one centimeter of the second word by top edge.
C9_SegundoPorY0 ==
    (pc = "escribir" /\ Cardinality(Segs) >= 2) =>
        \E t \in Segs : EsSegundo(t, Segs, 2) /\ y_pos = <<palabras[t][4] + 2835>>

\* C9 amended: the second word by bottom edge.
C9_SegundoPorY1 ==
    (pc = "escribir" /\ Cardinality(Segs) >= 2) =>
        \E t \in Segs : EsSegundo(t, Segs, 4) /\ y_pos = <<palabras[t][4] + 2835>>

C9_Testigo ==
    /\ pc = "escribir"
    /\ \E a, b \in Segs : /\ palabras[a][2] < palabras[b][2]
                          /\ palabras[a][4] > palabras[b][4]
    /\ Imps \cup Nums # {}

\* C10: an anchor is always produced; with no "seguimiento" word, or one and
\* no "importante" word, it is the greatest y of the words with 10 digits or
\* more plus one centimeter, and the page height minus 80 when there is none.
C10_NumerosOFallback ==
    pc = "escribir" =>
        /\ y_pos # None
        /\ (Segs = {} \/ (Cardinality(Segs) = 1 /\ Imps = {})) =>
              IF Nums # {}
              THEN \E t \in Nums : /\ \A n \in Nums : palabras[n][4] <= palabras[t][4]
                                   /\ y_pos = <<palabras[t][4] + 2835>>
              ELSE y_pos = <<altura - 8000>>

C10_Testigo ==
    /\ pc = "escribir"
    /\ Cardinality(Segs) = 1 /\ Imps = {}
    /\ \E a, b \in Nums : palabras[a][4] < palabras[b][4]

C10_TestigoSinPalabras ==
    /\ pc = "escribir"
    /\ palabras = <<>>
    /\ y_pos = <<altura - 8000>>

\* C16: with exactly one "seguimiento" word and at least one "importante"
\* word, the anchor is the greatest y of the "importante" words plus one
\* centimeter plus 50; the words with 10 digits or more play no part.
C16_UnSeguimientoImportante ==
    (pc = "escribir" /\ Cardinality(Segs) = 1 /\ Imps # {}) =>
        \E t \in Imps : /\ \A n \in Imps : palabras[n][4] <= palabras[t][4]
                        /\ y_pos = <<palabras[t][4] + 2835 + 5000>>

\* One "seguimiento" word, one "importante" word and, lower on the page, a
\* word of 10 digits.
C16_Testigo ==
    /\ pc = "escribir"
    /\ Cardinality(Segs) = 1
    /\ \E t \in Imps : \E n \in Nums : palabras[t][4] < palabras[n][4]

\* ------------------------------------------------------------------ label text
\* The part of a color before its first "/" (all of it when it has none).
AntesDeBarra(color) ==
    CHOOSE a \in {SubSeq(color, 1, n) : n \in 0..Len(color)} :
        /\ \A x \in 1..Len(a) : a[x] # "/"
        /\ Len(a) = Len(color) \/ color[Len(a) + 1] = "/"

\* d is the decimal writing of n.
EsDecimalDe(d, n) == isdigit(d) /\ int(d) = n /\ (Len(d) > 1 => d[1] # "0")

\* Sum of the quantities the formatter is given for the descriptor inf.
TotalDe(inf) ==
    LET S[n \in 0..Len(productos_de_orden)] ==
            IF n = 0 THEN 0
            ELSE S[n - 1] + (IF productos_de_orden[n][1] = inf
                             THEN productos_de_orden[n][2] ELSE 0)
    IN  S[Len(productos_de_orden)]

InfosDados == {productos_de_orden[n][1] : n \in 1..Len(productos_de_orden)}

LineasDadas == {lineas_etiqueta[n] : n \in 1..Len(lineas_etiqueta)}

\* Candidate writings of a quantity: one or two digits.
CantidadesEscritas == UNION {[1..n -> {Digitos[x] : x \in 1..Len(Digitos)}] : n \in 1..2}

\* C11: every item of category MANTA is written 'Manta <c> x<qty>', <c> being
\* the part of its color before the first '/' in lower case and <qty> its
\* summed quantity, whatever its model and size; there is one line per item.
C11_Manta ==
    pc = "formateado" =>
        /\ Len(lineas_etiqueta) = Cardinality(InfosDados)
        /\ \A inf \in InfosDados :
               inf[1] = <<"M", "A", "N", "T", "A">> =>
                   \E l \in LineasDadas : \E d \in CantidadesEscritas :
                       /\ l = <<"M", "a", "n", "t", "a", " ">> \o lower(AntesDeBarra(inf[3])) \o <<" ", "x">> \o d
                       /\ EsDecimalDe(d, TotalDe(inf))

\* Scenario 5, and the same item given twice with two-digit quantities.
C11_Testigo ==
    /\ pc = "formateado"
    /\ \E n \in 1..Len(productos_de_orden) :
           productos_de_orden[n] =
               <<<<<<"M", "A", "N", "T", "A">>, <<"M", "a", "n", "t", "a", " ", "D", "o", "b", "l", "e", " ", "F", "a", "z">>, <<"G", "r", "i", "s", "/", "B", "l", "a", "n", "c", "o">>, <<"U">>>>, 2>>
    /\ \E n \in 1..Len(productos_de_orden) : productos_de_orden[n][1][3] = <<"B", "e", "i", "g", "e", "/", "B", "l", "a", "n", "c", "o">>
    /\ <<"M", "a", "n", "t", "a", " ", "g", "r", "i", "s", " ", "x", "2">> \in LineasDadas

Estacionales == {<<"I", "N", "V", "I", "E", "R", "N", "O">>, <<"V", "E", "R", "A", "N", "O">>}

\* C12: every item whose model is Gatito is written 'Gatito <season> <size>
\* x<qty>' when its category is a season (INVIERNO, VERANO) and 'Gatito <size>
\* x<qty>' otherwise; its color is not written in either form.
C12_GatitoSinColor ==
    pc = "formateado" =>
        \A inf \in InfosDados :
            inf[2] = <<"G", "a", "t", "i", "t", "o">> =>
                \E l \in LineasDadas : \E d \in CantidadesEscritas :
                    /\ EsDecimalDe(d, TotalDe(inf))
                    /\ ~ contiene(l, inf[3])
                    /\ l = IF inf[1] \in Estacionales
                           THEN <<"G", "a", "t", "i", "t", "o", " ">> \o lower(inf[1]) \o <<" ">> \o inf[4] \o <<" ", "x">> \o d
                           ELSE <<"G", "a", "t", "i", "t", "o", " ">> \o inf[4] \o <<" ", "x">> \o d

\* The ordinal written for a size code: none for the one-size code.
Ordinal(talle) ==
    IF talle = <<"X", "S">> THEN <<" ", "N", "°", "1">>
    ELSE IF talle = <<"S">> THEN <<" ", "N", "°", "2">>
    ELSE IF talle = <<"M">> THEN <<" ", "N", "°", "3">>
    ELSE IF talle = <<"L">> THEN <<" ", "N", "°", "4">>
    ELSE IF talle = <<"X", "L">> THEN <<" ", "N", "°", "5">>
    ELSE <<>>

\* C13: every item of category ROPITA and model Ropita is written '<color>
\* <ordinal> x<qty>', the ordinal being that of its size and left out for the
\* one-size code; neither the model name nor the size code is written.
C13_RopitaOrdinal ==
    pc = "formateado" =>
        \A inf \in InfosDados :
            (inf[1] = <<"R", "O", "P", "I", "T", "A">> /\ inf[2] = <<"R", "o", "p", "i", "t", "a">>) =>
                \E l \in LineasDadas : \E d \in CantidadesEscritas :
                    /\ EsDecimalDe(d, TotalDe(inf))
                    /\ l = inf[3] \o Ordinal(inf[4]) \o <<" ", "x">> \o d

\* ------------------------------------------------------------------ two requests at once
\* C14: two documents processed at once do not affect one another: whatever
\* the interleaving of the steps of the calls, the answer for a document is
\* the same as when its call runs alone (the first request may be answered
\* before the second is taken), and the table is never changed.
C14_Independientes ==
    /\ mapa = MAPA_PRODUCTOS
    /\ \A a, b \in 1..Len(respuestas) :
           respuestas[a][1] = respuestas[b][1] => respuestas[a][2] = respuestas[b][2]

\* The second request was answered before the first one, which had been
\* taken before it: the two calls overlapped.  The third ran on the same
\* document as the first.
C14_Testigo ==
    /\ Len(respuestas) = 3
    /\ respuestas[1][1] # respuestas[2][1]
    /\ respuestas[2][1] = respuestas[3][1]
    /\ respuestas[1][2] # <<>>
    /\ respuestas[2][2] # <<>>

\* ------------------------------------------------------------------ spans
\* C15: when the capture meets a line with 'Subtotal' or a line starting with
\* a keyword, the product is emitted with quantity 1 and with its text as it
\* was (the line is not appended), and the scan of the order goes on at that
\* same line; a line starting with a keyword that the scan of the order is
\* at starts the next product, whose text begins as that line.
C15_FinDeTramo ==
    [][ /\ ( /\ pc = "captura"
             /\ m < Len(lineas_orden)
             /\ ~ isdigit(strip(lineas_orden[m + 1]))
             /\ \/ contiene(strip(lineas_orden[m + 1]), Subtotal)
                \/ es_palabra_clave(strip(lineas_orden[m + 1])) )
           => /\ cantidad' = 1
              /\ capturados' = Append(capturados, <<i, num_orden, nombre_producto, 1>>)
              /\ k' = m
              /\ lineas_orden' = lineas_orden
              /\ pc' = "producto"
        /\ ( /\ pc = "producto"
             /\ k < Len(lineas_orden)
             /\ es_palabra_clave(strip(lineas_orden[k + 1])) )
           => /\ pc' = "captura"
              /\ nombre_producto' = strip(lineas_orden[k + 1])
              /\ capturados' = capturados
      ]_vars

\* A product ended by a line starting with a keyword, which is the start line
\* of the next product; this one is ended by a 'Subtotal' line, at which the
\* scan of the order now is.
C15_Testigo ==
    /\ pc = "producto"
    /\ Len(capturados) = 2
    /\ Len(lineas_orden) >= 3
    /\ es_palabra_clave(strip(lineas_orden[2]))
    /\ contiene(strip(lineas_orden[3]), Subtotal)
    /\ k = 2
    /\ capturados[1] = <<i, num_orden, strip(lineas_orden[1]), 1>>
    /\ capturados[2] = <<i, num_orden, strip(lineas_orden[2]), 1>>

\* ------------------------------------------------------------------ headers
\* A header: a line 'Orden #' followed by digits.
EsEncabezado(l) ==
    startswith(strip(l), OrdenPrefijo) /\ re_search_orden(strip(l)) # None

\* Index of the first header after line x, the number of lines when none.
ProximoEncabezado(x) ==
    LET S == {y \in (x + 1)..(Len(lineas) - 1) : EsEncabezado(lineas[y + 1])}
    IN  IF S = {} THEN Len(lineas) ELSE CHOOSE y \in S : \A z \in S : y <= z

\* C17: a line starting with 'Orden #' that has no digits is not a header: it
\* opens no block and does not end the block before it, so the lines of the
\* order being processed are all the lines from its header to the next
\* header with digits (or the end), those after such a line included.
C17_EncabezadoSinDigitos ==
    pc \in {"producto", "captura"} =>
        /\ EsEncabezado(lineas[i + 1])
        /\ lineas_orden = SubSeq(lineas, i + 2, ProximoEncabezado(i))

LineasClave(n) ==
    Cardinality({x \in 1..n : es_palabra_clave(strip(lineas_orden[x]))})

\* Number of products emitted for the block being processed, resolved or not.
EmitidosDelBloque ==
    Cardinality({n \in 1..Len(capturados) : capturados[n][1] = i})

\* C20: in a block every line starting with a keyword starts one product and
\* none is taken as the continuation of another: at each point the products
\* started are as many as the lines starting with a keyword gone through,
\* the lines taken into a product's text hold none after its first, and when
\* the block is done the products emitted are as many as those lines.
C20_UnProductoPorLineaClave ==
    /\ pc = "producto" =>
           /\ k <= Len(lineas_orden)
           /\ productos_en_orden = LineasClave(k)
           /\ EmitidosDelBloque = productos_en_orden
    /\ pc = "captura" =>
           /\ m <= Len(lineas_orden)
           /\ productos_en_orden = LineasClave(m)
           /\ LineasClave(m) = LineasClave(k + 1)
           /\ EmitidosDelBloque = productos_en_orden - 1

\* A block is done that has two lines starting with a keyword, one after
\* the other, and a line that is not one.
C20_Testigo ==
    /\ pc = "producto"
    /\ k >= Len(lineas_orden)
    /\ EmitidosDelBloque = 2
    /\ LineasClave(Len(lineas_orden)) = 2
    /\ \E x \in 1..(Len(lineas_orden) - 1) :
           /\ es_palabra_clave(strip(lineas_orden[x]))
           /\ es_palabra_clave(strip(lineas_orden[x + 1]))
    /\ \E x \in 1..Len(lineas_orden) :
           /\ strip(lineas_orden[x]) # <<>>
           /\ ~ es_palabra_clave(strip(lineas_orden[x]))

=============================================================================
